---- MODULE Spec2Model ----
(***************************************************************************)
(* The game-analysis pipeline of stockfish-api: analyze_pgn / analyze_game *)
(* (src/src/analysis.py), the sqlite store (src/src/database.py) and the   *)
(* process_pgn driver (src/app.py), as one state machine.                  *)
(*                                                                         *)
(* Text is modelled as a sequence of one-character strings (player names)  *)
(* or of tokens (a PGN document).  An optional value (Python's None or a   *)
(* value) is a sequence of length 0 or 1.                                  *)
(***************************************************************************)
EXTENDS Integers, Sequences, FiniteSets, TLC

\* ------------------------------------------------------------------ bounds
\* Longest game, in plies, of the documents that are analysed.
MaxPlies == 3
\* Longest document, in tokens, that process_pgn is given.
MaxDoc == 2
\* Number of process_pgn batches in one run.
MaxBatches == 2
\* Number of store calls in one run of the store's interface.
MaxCalls == 3

\* --------------------------------------------------------------- constants
BLUNDER_THRESHOLD == 200
MATE_SCORE == 100000

None == <<>>
Some(v) == <<v>>

\* ------------------------------------------------------------------- text
\* Player names and usernames: <<"A">> is "A", <<" ","a">> is " a".
ToLower(c) == CASE c = "A" -> "a" [] c = "B" -> "b" [] OTHER -> c

lower(s) == [i \in 1..Len(s) |-> ToLower(s[i])]

RECURSIVE strip(_)
strip(s) ==
    IF s = <<>> THEN s
    ELSE IF Head(s) = " " THEN strip(Tail(s))
    ELSE IF s[Len(s)] = " " THEN strip(SubSeq(s, 1, Len(s) - 1))
    ELSE s

\* A document is a sequence of tokens: a run of whitespace ("ws"), a "%"
\* escape line ("esc"), which the PGN reader skips, or one game ("game").
\* A game token carries its White and Black headers, the starting board
\* ("w": White to move, "b": a FEN header with Black to move, "bad": a FEN
\* header game.board() rejects) and the number n of mainline moves.
Ws == [kind |-> "ws", White |-> <<>>, Black |-> <<>>, board |-> "w", n |-> 0]
Esc == [kind |-> "esc", White |-> <<>>, Black |-> <<>>, board |-> "w", n |-> 0]
Game(w, b, brd, k) == [kind |-> "game", White |-> w, Black |-> b, board |-> brd, n |-> k]

\* Faulty variant: the document is tested as it is, blank lines included.
strip_text_none(t) == t

RECURSIVE strip_text(_)
strip_text(t) ==
    IF t = <<>> THEN t
    ELSE IF Head(t).kind = "ws" THEN strip_text(Tail(t))
    ELSE IF t[Len(t)].kind = "ws" THEN strip_text(SubSeq(t, 1, Len(t) - 1))
    ELSE t

\* chess.pgn.read_game: skips blank and "%" lines; the rest of the stream
\* from the next game on (<<>> at end of input, where read_game gives None).
RECURSIVE skip_to_game(_)
skip_to_game(stream) ==
    IF stream = <<>> THEN stream
    ELSE IF Head(stream).kind = "game" THEN stream
    ELSE skip_to_game(Tail(stream))

\* ----------------------------------------------------------- analysis.py
\* resolve_stockfish_path: the first candidate that is a file or is found on
\* the command search path; None when there is none (FileNotFoundError).
Candidates(stockfish_path) == <<stockfish_path, "./stockfish", "stockfish">>

RECURSIVE resolve_from(_, _, _)
resolve_from(cands, files, onpath) ==
    IF cands = <<>> THEN None
    ELSE IF Head(cands) = "" THEN resolve_from(Tail(cands), files, onpath)
    ELSE IF Head(cands) \in files THEN Some(Head(cands))
    ELSE IF Head(cands) \in onpath THEN Some(Head(cands))
    ELSE resolve_from(Tail(cands), files, onpath)

resolve_stockfish_path(stockfish_path, files, onpath) ==
    resolve_from(Candidates(stockfish_path), files, onpath)

identify_user_color(headers, user) ==
    IF user = <<>> THEN "none"
    ELSE LET normalized == lower(strip(user)) IN
         IF normalized # <<>> /\ lower(strip(headers.White)) = normalized THEN "white"
         ELSE IF normalized # <<>> /\ lower(strip(headers.Black)) = normalized THEN "black"
         ELSE "none"

Max(a, b) == IF a >= b THEN a ELSE b
Min(a, b) == IF a <= b THEN a ELSE b

\* Faulty variant: the difference is not floored at zero.
centipawn_loss_signed(before_cp, after_cp, color) ==
    LET before_pov == IF color = "white" THEN before_cp ELSE -before_cp
        after_pov == IF color = "white" THEN after_cp ELSE -after_cp
    IN before_pov - after_pov

centipawn_loss(before_cp, after_cp, color) ==
    LET before_pov == IF color = "white" THEN before_cp ELSE -before_cp
        after_pov == IF color = "white" THEN after_cp ELSE -after_cp
        loss == before_pov - after_pov
    IN Max(0, loss)

RECURSIVE Sum(_)
Sum(s) == IF s = <<>> THEN 0 ELSE Head(s) + Sum(Tail(s))

\* accuracy_from_losses: None for no losses, else the clamped value of
\* 100 - (sum / len) / 2, kept exactly as the fraction num / den with
\* den = 2 * len (the code computes it in floating point).
\* Faulty variant: the accuracy is not clamped.
accuracy_unclamped(ls) ==
    IF ls = <<>> THEN None
    ELSE Some([num |-> 200 * Len(ls) - Sum(ls), den |-> 2 * Len(ls)])

accuracy_from_losses(ls) ==
    IF ls = <<>> THEN None
    ELSE LET den == 2 * Len(ls)
             accuracy == 100 * den - Sum(ls)
         IN Some([num |-> Max(0, Min(100 * den, accuracy)), den |-> den])

\* Faulty variant: the threshold itself counts as a blunder.
is_blunder_loss_ge(loss) == loss >= BLUNDER_THRESHOLD

\* Line 99.
is_blunder_loss(loss) == loss > BLUNDER_THRESHOLD

\* Faulty variant: every ply of a game with a tracked colour counts as the user's.
is_user_move_any(color, board_turn) == color # "none"

is_user_move(color, board_turn) ==
    \/ color = "white" /\ board_turn = "w"
    \/ color = "black" /\ board_turn = "b"

Flip(board_turn) == IF board_turn = "w" THEN "b" ELSE "w"

\* game.accept(StringExporter(headers=True, variations=False, comments=False))
export_pgn(g) == <<g.White, g.Black, g.board, g.n>>

\* score_to_cp: a centipawn score as it is; mate in m as MATE_SCORE - m for
\* the side giving mate, -MATE_SCORE - m for the side being mated.
score_to_cp(score) ==
    IF score.kind = "cp" THEN score.v
    ELSE IF score.v > 0 THEN MATE_SCORE - score.v
    ELSE -MATE_SCORE - score.v

Cp(v) == [kind |-> "cp", v |-> v]
Mate(m) == [kind |-> "mate", v |-> m]

\* ------------------------------------------------------------ database.py
\* The games table is a set of rows with an id column, the moves table a
\* sequence of rows in insertion order; seq_id is sqlite_sequence, the
\* largest id AUTOINCREMENT has handed out.
lastrowid(seq) == seq + 1

\* Faulty variant: the values are bound one column off: white lands in pgn_text.
insert_game_shifted(tbl, seq, game_data) ==
    tbl \cup {[id |-> lastrowid(seq),
               white |-> game_data.white,
               black |-> game_data.black,
               my_accuracy |-> game_data.my_accuracy,
               blunders |-> game_data.blunders,
               pgn_text |-> Some(game_data.white)]}

insert_game(tbl, seq, game_data) ==
    tbl \cup {[id |-> lastrowid(seq),
               white |-> game_data.white,
               black |-> game_data.black,
               my_accuracy |-> game_data.my_accuracy,
               blunders |-> game_data.blunders,
               pgn_text |-> game_data.pgn_text]}

move_row(gid, move) ==
    [game_id |-> gid,
     move_number |-> move.move_number,
     ply |-> move.ply,
     engine_eval |-> move.engine_eval,
     is_blunder |-> IF move.is_blunder THEN 1 ELSE 0]

\* Faulty variant: the rows are written under the id the next game will get.
insert_moves_next_id(tbl, gid, mvs) ==
    tbl \o [i \in 1..Len(mvs) |-> move_row(gid + 1, mvs[i])]

insert_moves(tbl, gid, mvs) ==
    tbl \o [i \in 1..Len(mvs) |-> move_row(gid, mvs[i])]

\* fetch_game_pgn: the pgn_text column of the row with that id (an optional
\* value, as game_data.get gave it), None without such a row.
fetch_game_pgn(tbl, gid) ==
    LET rows == {r \in tbl : r.id = gid} IN
    IF rows = {} THEN None ELSE (CHOOSE r \in rows : TRUE).pgn_text

\* ------------------------------------------------------------------ state
VARIABLES
    \* the environment: the scores the engine may report, the files and
    \* commands that exist, whether the resolved executable starts as a UCI
    \* engine
    engineScores, files, onpath, engineOk,
    \* the arguments of the call
    pgn_text, stockfish_path, username,
    \* analyze_pgn: control point, outcome, locals, the engine session
    pc, ret, results, stream, exc, opened, closed,
    \* analyze_game: the game and the locals of the replay loop
    game, my_color, turn, fullmove, ply, moves, losses, blunders, eval_before,
    \* process_pgn: the message shown, the loop index, the id insert_game gave
    ui, batches, idx, game_id,
    \* the store
    games, moves_tbl, seq_id,
    \* history: engine calls of the current ply and of each emitted move,
    \* games read and the game that failed in this batch, the (id, text)
    \* pairs insert_game has returned and the number of store calls made
    \* through its interface
    ncalls, evlog, started, failed, assigned, calls

envVars == <<engineScores, files, onpath, engineOk>>
argVars == <<pgn_text, stockfish_path, username>>
pgnVars == <<ret, results, stream, exc, opened, closed, started, failed>>
gameVars == <<game, my_color, turn, fullmove, ply, moves, losses, blunders,
              eval_before, ncalls, evlog>>
appVars == <<ui, batches, idx, game_id>>
dbVars == <<games, moves_tbl, seq_id, assigned, calls>>
vars == <<envVars, argVars, pc, pgnVars, gameVars, appVars, dbVars>>

NoGame == Game(<<>>, <<>>, "w", 0)

\* The state before any call, for the given environment and arguments.
InitWith(scores, fs, path, ok, doc, hint, user, at) ==
    /\ engineScores = scores
    /\ files = fs /\ onpath = path /\ engineOk = ok
    /\ pgn_text = doc /\ stockfish_path = hint /\ username = user
    /\ pc = at /\ ret = "none" /\ results = <<>> /\ stream = <<>>
    /\ exc = FALSE /\ opened = 0 /\ closed = 0 /\ started = 0 /\ failed = 0
    /\ game = NoGame /\ my_color = "none" /\ turn = "w" /\ fullmove = 1
    /\ ply = 0 /\ moves = <<>> /\ losses = <<>> /\ blunders = 0
    /\ eval_before = 0 /\ ncalls = 0 /\ evlog = <<>>
    /\ ui = "none" /\ batches = 0 /\ idx = 0 /\ game_id = 0
    /\ games = {} /\ moves_tbl = <<>> /\ seq_id = 0
    /\ assigned = <<>> /\ calls = 0

\* ------------------------------------------------------------ analyze_pgn
\* Lines 138-142: the empty check, then the engine path.
analyze_pgn ==
    /\ pc = "analyze_pgn"
    /\ opened' = 0 /\ closed' = 0 /\ started' = 0 /\ failed' = 0
    /\ exc' = FALSE /\ stream' = <<>> /\ results' = <<>>
    /\ IF strip_text(pgn_text) = <<>>
       THEN ret' = "returned" /\ pc' = "return"
       ELSE IF resolve_stockfish_path(stockfish_path, files, onpath) = None
       THEN ret' = "FileNotFoundError" /\ pc' = "return"
       ELSE ret' = "none" /\ pc' = "popen_uci"
    /\ UNCHANGED <<envVars, argVars, gameVars, appVars, dbVars>>

\* Line 144, entering the with block: the engine process is started, or
\* popen_uci raises and nothing is opened.
popen_uci ==
    /\ pc = "popen_uci"
    /\ IF engineOk
       THEN /\ opened' = opened + 1 /\ stream' = pgn_text
            /\ pc' = "read_game" /\ ret' = ret
       ELSE /\ opened' = opened /\ stream' = stream
            /\ pc' = "return" /\ ret' = "Exception"
    /\ UNCHANGED <<envVars, argVars, results, exc, closed, started, failed,
                   gameVars, appVars, dbVars>>

\* Lines 146-149: the next game of the stream, or the end of the loop.
read_game ==
    /\ pc = "read_game"
    /\ LET rest == skip_to_game(stream) IN
       IF rest = <<>>
       THEN /\ pc' = "exit" /\ stream' = rest
            /\ UNCHANGED <<game, started>>
       ELSE /\ pc' = "analyze_game" /\ game' = Head(rest) /\ stream' = Tail(rest)
            /\ started' = started + 1
    /\ UNCHANGED <<envVars, argVars, ret, results, exc, opened, closed, failed,
                   my_color, turn, fullmove, ply, moves, losses, blunders,
                   eval_before, ncalls, evlog, appVars, dbVars>>

\* Faulty variant: the failure of a game is noted and the loop reads the next game.
Raise_and_continue ==
    /\ pc' = "read_game" /\ exc' = exc /\ failed' = started

\* An exception leaves analyze_game and the loop: the with block is left
\* with it pending, the results list is dropped with the frame.
Raise ==
    /\ pc' = "exit" /\ exc' = TRUE /\ failed' = started

\* Lines 70-77: the tracked colour and the starting board.
analyze_game ==
    /\ pc = "analyze_game"
    /\ my_color' = identify_user_color(game, username)
    /\ moves' = <<>> /\ losses' = <<>> /\ blunders' = 0 /\ ply' = 0
    /\ ncalls' = 0 /\ evlog' = <<>> /\ fullmove' = 1
    /\ IF game.board = "bad"
       THEN Raise /\ turn' = turn
       ELSE pc' = "ply" /\ turn' = game.board /\ UNCHANGED <<exc, failed>>
    /\ UNCHANGED <<envVars, argVars, ret, results, stream, opened, closed,
                   started, game, eval_before, appVars, dbVars>>

\* What engine.analyse may do: report a score, or raise.
Replies == {[ok |-> TRUE, score |-> s] : s \in engineScores}
               \cup {[ok |-> FALSE, score |-> Cp(0)]}

\* Lines 79-93: a ply of the tracked colour, the evaluation before the move.
evaluate_before ==
    /\ pc = "ply" /\ ply < game.n /\ is_user_move(my_color, turn)
    /\ ncalls' = 1
    /\ \E r \in Replies :
         IF r.ok
         THEN /\ eval_before' = score_to_cp(r.score) /\ pc' = "after"
              /\ UNCHANGED <<exc, failed>>
         ELSE Raise /\ eval_before' = eval_before
    /\ UNCHANGED <<envVars, argVars, ret, results, stream, opened, closed,
                   started, game, my_color, turn, fullmove, ply, moves, losses,
                   blunders, evlog, appVars, dbVars>>

move_record(number, p, engine_eval, is_blunder) ==
    [move_number |-> number, ply |-> p, engine_eval |-> engine_eval,
     is_blunder |-> is_blunder]

\* board.push: the other side is to move, the move number grows after Black.
Pushed(t, number) == IF t = "b" THEN number + 1 ELSE number

\* Lines 94-101 and 105-114: the move is pushed, the position after it is
\* evaluated, the loss and the blunder flag are derived, the record emitted.
evaluate_after ==
    /\ pc = "after"
    /\ turn' = Flip(turn) /\ fullmove' = Pushed(turn, fullmove)
    /\ ncalls' = ncalls + 1
    /\ \E r \in Replies :
         IF r.ok
         THEN LET eval_after == score_to_cp(r.score)
                  loss == centipawn_loss(eval_before, eval_after, my_color)
              IN /\ losses' = Append(losses, loss)
                 /\ blunders' = IF is_blunder_loss(loss) THEN blunders + 1 ELSE blunders
                 /\ ply' = ply + 1
                 /\ moves' = Append(moves, move_record(fullmove, ply + 1,
                                       Some(eval_after), is_blunder_loss(loss)))
                 /\ evlog' = Append(evlog, [calls |-> ncalls + 1,
                                            before |-> eval_before,
                                            after |-> eval_after,
                                            loss |-> loss])
                 /\ pc' = "ply"
                 /\ UNCHANGED <<exc, failed>>
         ELSE Raise /\ UNCHANGED <<losses, blunders, ply, moves, evlog>>
    /\ UNCHANGED <<envVars, argVars, ret, results, stream, opened, closed,
                   started, game, my_color, eval_before, appVars, dbVars>>

\* Lines 79-91 and 102-114: a ply of the other colour, or of a game without
\* a tracked colour: the move is pushed and recorded without evaluation.
push_move ==
    /\ pc = "ply" /\ ply < game.n /\ ~is_user_move(my_color, turn)
    /\ turn' = Flip(turn) /\ fullmove' = Pushed(turn, fullmove)
    /\ ply' = ply + 1 /\ ncalls' = 0
    /\ moves' = Append(moves, move_record(fullmove, ply + 1, None, FALSE))
    /\ evlog' = Append(evlog, [calls |-> 0, before |-> 0, after |-> 0,
                               loss |-> 0])
    /\ UNCHANGED <<envVars, argVars, pc, pgnVars, game, my_color, losses,
                   blunders, eval_before, appVars, dbVars>>

game_summary(g, ls, nblunders) ==
    [white |-> g.White, black |-> g.Black,
     my_accuracy |-> accuracy_from_losses(ls),
     blunders |-> nblunders,
     pgn_text |-> Some(export_pgn(g))]

\* Lines 116-132 and 150: the summary of the game joins the results.
finish_game ==
    /\ pc = "ply" /\ ply = game.n
    /\ results' = Append(results, [game |-> game_summary(game, losses, blunders),
                                   moves |-> moves])
    /\ pc' = "read_game"
    /\ UNCHANGED <<envVars, argVars, ret, stream, exc, opened, closed, started,
                   failed, gameVars, appVars, dbVars>>

\* Faulty variant: the engine is closed on the normal path only.
engine_exit_leak ==
    /\ pc = "exit"
    /\ closed' = IF exc THEN closed ELSE closed + 1
    /\ pc' = "return"
    /\ ret' = IF exc THEN "Exception" ELSE "returned"
    /\ results' = IF exc THEN <<>> ELSE results
    /\ UNCHANGED <<envVars, argVars, stream, exc, opened, started, failed,
                   gameVars, appVars, dbVars>>

\* Line 144, leaving the with block: the engine is closed, then line 152
\* returns the results or the pending exception propagates.
engine_exit ==
    /\ pc = "exit"
    /\ closed' = closed + 1
    /\ pc' = "return"
    /\ ret' = IF exc THEN "Exception" ELSE "returned"
    /\ results' = IF exc THEN <<>> ELSE results
    /\ UNCHANGED <<envVars, argVars, stream, exc, opened, started, failed,
                   gameVars, appVars, dbVars>>

\* ------------------------------------------------------------ documents
RECURSIVE SeqsUpTo(_, _)
SeqsUpTo(S, k) ==
    IF k = 0 THEN {<<>>}
    ELSE LET shorter == SeqsUpTo(S, k - 1) IN
         shorter \cup {Append(t, x) : t \in shorter, x \in S}

\* process_pgn batches: documents of up to MaxDoc tokens over blank lines,
\* escape lines, a game the user played as White, a game of other players
\* and a game whose starting board is rejected.
BatchUser == <<"a">>
BatchTokens == {Ws, Esc, Game(<<"a">>, <<"b">>, "w", 1),
                Game(<<"c">>, <<"b">>, "w", 1), Game(<<"a">>, <<"b">>, "bad", 1)}
BatchDocs == SeqsUpTo(BatchTokens, MaxDoc)
BatchScores == {Cp(0)}

\* ------------------------------------------------------------ process_pgn
\* The locals of analyze_game and the stream of analyze_pgn end with their
\* frames.
DropAnalysisFrames ==
    /\ stream' = <<>> /\ exc' = FALSE
    /\ game' = NoGame /\ my_color' = "none" /\ turn' = "w" /\ fullmove' = 1
    /\ ply' = 0 /\ moves' = <<>> /\ losses' = <<>> /\ blunders' = 0
    /\ eval_before' = 0 /\ ncalls' = 0 /\ evlog' = <<>>

\* process_pgn returns: its arguments and locals end with its frame.
ReturnToIdle(message) ==
    /\ pc' = "idle" /\ ui' = message
    /\ pgn_text' = <<>> /\ results' = <<>> /\ ret' = "none"
    /\ idx' = 0 /\ game_id' = 0

\* Lines 63-69: a document is uploaded; an empty one is refused with a
\* warning, any other is handed to analyze_pgn.
process_pgn ==
    /\ pc = "idle" /\ batches < MaxBatches
    /\ batches' = batches + 1
    /\ started' = 0 /\ failed' = 0
    /\ \E doc \in BatchDocs :
         IF strip_text(doc) = <<>>
         THEN ReturnToIdle("warning_empty")
         ELSE /\ pgn_text' = doc /\ ui' = "none" /\ pc' = "analyze_pgn"
              /\ UNCHANGED <<results, ret, idx, game_id>>
    /\ UNCHANGED <<envVars, stockfish_path, username, stream, exc, opened, closed,
                   gameVars, dbVars>>

\* Lines 70-81: what analyze_pgn raised is shown as an error, an empty
\* result as a warning; otherwise the store loop starts.
process_pgn_result ==
    /\ pc = "return"
    /\ DropAnalysisFrames
    /\ IF ret = "FileNotFoundError" THEN ReturnToIdle("error_not_found")
       ELSE IF ret = "Exception" THEN ReturnToIdle("error_failed")
       ELSE IF results = <<>> THEN ReturnToIdle("warning_no_games")
       ELSE /\ pc' = "insert_game" /\ idx' = 1
            /\ UNCHANGED <<ui, pgn_text, results, ret, game_id>>
    /\ UNCHANGED <<envVars, stockfish_path, username, opened, closed, started,
                   failed, batches, dbVars>>

\* Faulty variant: the rows of a batch are committed together, so a rejected
\* write rolls back the games the batch has stored so far.
store_game_batch_rollback ==
    /\ pc = "insert_game"
    /\ \E ok \in BOOLEAN :
         IF ok
         THEN /\ games' = insert_game(games, seq_id, results[idx].game)
              /\ seq_id' = lastrowid(seq_id)
              /\ game_id' = lastrowid(seq_id)
              /\ assigned' = Append(assigned, [id |-> lastrowid(seq_id),
                                               text |-> results[idx].game.pgn_text])
              /\ pc' = "insert_moves"
              /\ UNCHANGED <<ui, pgn_text, results, ret, idx, moves_tbl>>
         ELSE /\ LET Before(row_id) == row_id <= seq_id - (idx - 1)
                     Kept(m) == Before(m.game_id)
                 IN /\ games' = {r \in games : Before(r.id)}
                    /\ moves_tbl' = SelectSeq(moves_tbl, Kept)
              /\ UNCHANGED <<seq_id, assigned>>
              /\ ReturnToIdle("exception")
    /\ UNCHANGED <<envVars, stockfish_path, username, stream, exc, opened, closed,
                   started, failed, gameVars, batches, calls>>

\* Line 83: insert_game commits the game row and returns its id, or the
\* store rejects the write and the exception leaves process_pgn.
store_game ==
    /\ pc = "insert_game"
    /\ \E ok \in BOOLEAN :
         IF ok
         THEN /\ games' = insert_game(games, seq_id, results[idx].game)
              /\ seq_id' = lastrowid(seq_id)
              /\ game_id' = lastrowid(seq_id)
              /\ assigned' = Append(assigned, [id |-> lastrowid(seq_id),
                                               text |-> results[idx].game.pgn_text])
              /\ pc' = "insert_moves"
              /\ UNCHANGED <<ui, pgn_text, results, ret, idx>>
         ELSE /\ UNCHANGED <<games, seq_id, assigned>>
              /\ ReturnToIdle("exception")
    /\ UNCHANGED <<envVars, stockfish_path, username, stream, exc, opened, closed,
                   started, failed, gameVars, batches, moves_tbl, calls>>

\* Lines 84-86: insert_moves commits the moves of the game under the id just
\* returned, or fails and the connection rolls the pending rows back.
store_moves ==
    /\ pc = "insert_moves"
    /\ \E ok \in BOOLEAN :
         IF ok
         THEN /\ moves_tbl' = insert_moves(moves_tbl, game_id, results[idx].moves)
              /\ IF idx = Len(results)
                 THEN ReturnToIdle("success")
                 ELSE /\ pc' = "insert_game" /\ idx' = idx + 1
                      /\ UNCHANGED <<ui, pgn_text, results, ret, game_id>>
         ELSE /\ moves_tbl' = moves_tbl
              /\ ReturnToIdle("exception")
    /\ UNCHANGED <<envVars, stockfish_path, username, stream, exc, opened, closed,
                   started, failed, gameVars, batches, games, seq_id, assigned,
                   calls>>

\* ------------------------------------------------- the store's interface
ApiTexts == {None, Some(<<"e4">>), Some(<<"d4">>)}
ApiGameData == [white : {<<"a">>}, black : {<<"b">>}, my_accuracy : {None},
                blunders : {0}, pgn_text : ApiTexts]
ApiMoves == {<<>>, <<move_record(1, 1, None, FALSE)>>}

\* insert_game called by any client of the store.
api_insert_game ==
    /\ pc = "api" /\ calls < MaxCalls
    /\ calls' = calls + 1
    /\ \E data \in ApiGameData, ok \in BOOLEAN :
         IF ok
         THEN /\ games' = insert_game(games, seq_id, data)
              /\ seq_id' = lastrowid(seq_id)
              /\ assigned' = Append(assigned, [id |-> lastrowid(seq_id),
                                               text |-> data.pgn_text])
         ELSE UNCHANGED <<games, seq_id, assigned>>
    /\ UNCHANGED <<envVars, argVars, pc, pgnVars, gameVars, appVars, moves_tbl>>

\* insert_moves called by any client of the store, with any game id.
api_insert_moves ==
    /\ pc = "api" /\ calls < MaxCalls
    /\ calls' = calls + 1
    /\ \E gid \in 0..(seq_id + 1), mvs \in ApiMoves :
         moves_tbl' = insert_moves(moves_tbl, gid, mvs)
    /\ UNCHANGED <<envVars, argVars, pc, pgnVars, gameVars, appVars, games,
                   seq_id, assigned>>

\* --------------------------------------------------------- specifications
\* Environments: what exists on disk and on the search path.
Hints == {"", "/opt/sf"}
FileSets == {{}, {"/opt/sf"}, {"./stockfish"}}
PathSets == {{}, {"stockfish"}}

\* analyze_pgn called on its own: one game with every combination of
\* headers, starting board and length, alone or between blank and escape
\* lines, and the documents without a game.
Users == {<<>>, <<" ">>, <<"A", " ">>, <<"b">>}
HeaderPairs == {<< <<"a">>, <<"b">> >>, << <<"B">>, <<" ", "a">> >>,
                << <<"a">>, <<"A">> >>}
AnalyzeGames == {Game(h[1], h[2], brd, k) :
                    h \in HeaderPairs, brd \in {"w", "b", "bad"}, k \in 0..MaxPlies}
AnalyzeDocs == {<<g>> : g \in AnalyzeGames}
                 \cup {<<>>, <<Ws>>, <<Ws, Ws>>, <<Esc>>, <<Ws, Esc, Ws>>}
AnalyzeScores == {Cp(0), Cp(200), Cp(201), Mate(-1)}

InitAnalyze ==
    \E fs \in FileSets, path \in PathSets, ok \in BOOLEAN,
       doc \in AnalyzeDocs, hint \in Hints, user \in Users :
        InitWith(AnalyzeScores, fs, path, ok, doc, hint, user, "analyze_pgn")

NextAnalyze ==
    \/ analyze_pgn
    \/ popen_uci
    \/ read_game
    \/ analyze_game
    \/ evaluate_before
    \/ evaluate_after
    \/ push_move
    \/ finish_game
    \/ engine_exit

SpecAnalyze == InitAnalyze /\ [][NextAnalyze]_vars

InitBatch ==
    \E fs \in {{}, {"./stockfish"}}, ok \in BOOLEAN :
        InitWith(BatchScores, fs, {}, ok, <<>>, "./stockfish",
                 BatchUser, "idle")

Next ==
    \/ process_pgn
    \/ analyze_pgn
    \/ popen_uci
    \/ read_game
    \/ analyze_game
    \/ evaluate_before
    \/ evaluate_after
    \/ push_move
    \/ finish_game
    \/ engine_exit
    \/ process_pgn_result
    \/ store_game
    \/ store_moves

Spec == InitBatch /\ [][Next]_vars

\* The store's interface called directly.
InitStore ==
    InitWith({}, {}, {}, FALSE, <<>>, "", <<>>, "api")

NextStore ==
    \/ api_insert_game
    \/ api_insert_moves

SpecStore == InitStore /\ [][NextStore]_vars

\* ------------------------------------------------------------- properties
\* Vocabulary of the properties, stated without the operators of the model.
NGames(doc) == Cardinality({i \in 1..Len(doc) : doc[i].kind = "game"})
IsBlank(doc) == \A i \in 1..Len(doc) : doc[i].kind = "ws"

\* x and y are the same name up to case and surrounding blanks.
NonBlank(x) == {i \in 1..Len(x) : x[i] # " "}
Trimmed(x) ==
    IF NonBlank(x) = {} THEN <<>>
    ELSE LET lo == CHOOSE i \in NonBlank(x) : \A j \in NonBlank(x) : i <= j
             hi == CHOOSE i \in NonBlank(x) : \A j \in NonBlank(x) : i >= j
         IN [k \in 1..(hi - lo + 1) |-> x[lo + k - 1]]
SameLetter(c, d) ==
    \/ c = d
    \/ {c, d} = {"a", "A"}
    \/ {c, d} = {"b", "B"}
SameName(x, y) ==
    /\ Trimmed(x) # <<>>
    /\ Len(Trimmed(x)) = Len(Trimmed(y))
    /\ \A i \in 1..Len(Trimmed(x)) : SameLetter(Trimmed(x)[i], Trimmed(y)[i])

\* The side that plays ply i of the current game, and whether it is the
\* tracked colour.
Mover(i) == IF i % 2 = 1 THEN game.board ELSE Flip(game.board)
TrackedPly(i) ==
    \/ my_color = "white" /\ Mover(i) = "w"
    \/ my_color = "black" /\ Mover(i) = "b"
\* The loss of ply i from the point of view of the tracked colour.
PovLoss(i) ==
    LET d == IF my_color = "black"
             THEN evlog[i].after - evlog[i].before
             ELSE evlog[i].before - evlog[i].after
    IN IF d > 0 THEN d ELSE 0
InGame == pc \in {"ply", "after", "read_game", "exit", "return"} /\ started > 0

\* C1 (as claimed): when the analysis of game k fails, the batch still ends
\* with games k+1..N read and analysed and their results returned.
C1_FailureDoesNotAbort ==
    (pc = "return" /\ failed > 0) =>
        /\ ret = "returned"
        /\ started = NGames(pgn_text)
        /\ Len(results) >= NGames(pgn_text) - failed

\* C1 (amended): when the analysis of game k fails, the whole batch fails:
\* no game after k is read, the engine session is closed, analyze_pgn raises
\* and returns no result (those of games 1..k-1 are dropped), and process_pgn
\* reports the failure without reaching the store loop.
C1_FailureAbortsBatch ==
    failed > 0 =>
        /\ started = failed
        /\ pc \in {"exit", "return", "idle"}
        /\ (pc = "return" =>
                ret = "Exception" /\ results = <<>> /\ closed = 1)
        /\ (pc = "idle" => ui = "error_failed" /\ results = <<>>)

C1_Witness ==
    /\ pc = "return" /\ failed = 1 /\ NGames(pgn_text) = 2
    /\ ret = "Exception" /\ results = <<>>

\* C2: a batch on a non-empty document whose engine resolves and starts
\* opens exactly one engine session, however many games it holds, and the
\* session is closed exactly once on every way out of analyze_pgn: none is
\* open once the call has ended and none is closed twice.
C2_OneSessionClosedOnce ==
    /\ closed <= opened /\ opened <= 1
    /\ (pc \in {"read_game", "analyze_game", "ply", "after", "exit"} =>
            opened = 1 /\ closed = 0)
    /\ (pc \in {"return", "idle", "insert_game", "insert_moves"} =>
            closed = opened)
    /\ (/\ pc = "return"
        /\ ~IsBlank(pgn_text)
        /\ \E c \in {stockfish_path, "./stockfish", "stockfish"} :
               c # "" /\ c \in files \cup onpath
        /\ engineOk) => (opened = 1 /\ closed = 1)

C2_Witness ==
    /\ pc = "return" /\ ret = "Exception" /\ failed = 2 /\ started = 2
    /\ opened = 1 /\ closed = 1

\* C3: analyze_pgn on an empty or whitespace-only document returns the empty
\* list and no error, whatever the engine path hint and whether or not an
\* engine can be resolved, and opens no engine session.
C3_BlankDocumentReturnsEmpty ==
    IsBlank(pgn_text) =>
        /\ pc \in {"analyze_pgn", "return"}
        /\ opened = 0 /\ closed = 0
        /\ (pc = "return" => ret = "returned" /\ results = <<>>)

C3_Witness ==
    /\ pc = "return" /\ pgn_text = <<Ws, Ws>> /\ ret = "returned"
    /\ files = {} /\ onpath = {} /\ stockfish_path = "/opt/sf"

\* C4 (as claimed): the tracked colour is White only if the username matches
\* the White name, Black only if it matches the Black name, and when it
\* matches both names or neither no move is tracked: no record carries an
\* evaluation, no loss is accumulated, no blunder counted, nothing raised by
\* an evaluation.
C4_AmbiguousOrNoMatchTracksNothing ==
    (pc \in {"ply", "after"}) =>
        /\ (my_color = "white" => SameName(username, game.White))
        /\ (my_color = "black" => SameName(username, game.Black))
        /\ (SameName(username, game.White) = SameName(username, game.Black) =>
                /\ my_color = "none"
                /\ pc = "ply"
                /\ \A i \in 1..Len(moves) : moves[i].engine_eval = None
                /\ losses = <<>> /\ blunders = 0)

\* C5: the blunder flag of every move record is true exactly when the ply
\* was played by the tracked colour and lost more than 200 centipawns from
\* its point of view.
C5_BlunderFlag ==
    InGame =>
        \A i \in 1..Len(moves) :
            moves[i].is_blunder <=> (TrackedPly(i) /\ PovLoss(i) > 200)

C5_Witness ==
    /\ InGame
    /\ \E i, j \in 1..Len(moves) :
         /\ TrackedPly(i) /\ PovLoss(i) = 200 /\ ~moves[i].is_blunder
         /\ TrackedPly(j) /\ PovLoss(j) = 201 /\ moves[j].is_blunder

\* The games analyze_pgn has just finished, with the losses of their
\* evaluated moves.
Evaluated == {i \in 1..Len(moves) : moves[i].engine_eval # None}
RECURSIVE LossTotal(_)
LossTotal(k) ==
    IF k = 0 THEN 0
    ELSE (IF k \in Evaluated THEN PovLoss(k) ELSE 0) + LossTotal(k - 1)
JustFinished == pc \in {"read_game", "exit"} /\ results # <<>> /\ ~exc

\* C6: the accuracy of a game summary is absent exactly when no move of the
\* game was evaluated, and then the blunder count is 0; otherwise it is
\* 100 - (average loss) / 2 clamped to [0, 100].
C6_Accuracy ==
    JustFinished =>
        LET summary == results[Len(results)].game
            n == Cardinality(Evaluated)
            total == LossTotal(Len(moves))
        IN /\ (summary.my_accuracy = None <=> n = 0)
           /\ (n = 0 => summary.blunders = 0)
           /\ (n > 0 =>
                 LET a == summary.my_accuracy[1] IN
                 /\ a.den > 0
                 /\ 0 <= a.num /\ a.num <= 100 * a.den
                 /\ IF total >= 200 * n
                    THEN a.num = 0
                    ELSE a.num * 2 * n = a.den * (200 * n - total))

C6_Witness ==
    /\ JustFinished
    /\ Cardinality(Evaluated) = 2
    /\ LossTotal(Len(moves)) > 400
    /\ results[Len(results)].game.my_accuracy = Some([num |-> 0, den |-> 4])

\* C7: the centipawn loss of every evaluated move is max(0, before - after)
\* taken from the tracked colour's point of view, and so never negative.
C7_LossNeverNegative ==
    InGame =>
        \A i \in 1..Len(evlog) :
            evlog[i].calls = 2 =>
                /\ evlog[i].loss >= 0
                /\ evlog[i].loss = PovLoss(i)

C7_Witness ==
    /\ InGame /\ my_color = "black"
    /\ \E i \in 1..Len(evlog) :
         /\ evlog[i].calls = 2
         /\ evlog[i].after < evlog[i].before /\ evlog[i].loss = 0

\* C8: every identifier insert_game has returned fetches the text given to
\* that insert, whatever was inserted since; identifiers of distinct inserts
\* differ; an identifier never returned fetches not-found.
C8_RoundTrip ==
    /\ \A i \in 1..Len(assigned) :
         fetch_game_pgn(games, assigned[i].id) = assigned[i].text
    /\ \A i, j \in 1..Len(assigned) : i # j => assigned[i].id # assigned[j].id
    /\ \A gid \in 0..(seq_id + 2) :
         (\A i \in 1..Len(assigned) : assigned[i].id # gid) =>
             fetch_game_pgn(games, gid) = None

C8_Witness ==
    /\ Len(assigned) = 2 /\ moves_tbl # <<>>
    /\ assigned[1].text = Some(<<"e4">>) /\ assigned[2].text = Some(<<"d4">>)
    /\ fetch_game_pgn(games, assigned[1].id) = Some(<<"e4">>)

\* C9: a move record carries an evaluation exactly when its ply was played
\* by the tracked colour; such a ply made two engine evaluations, any other
\* ply none.
C9_EvaluationIffTracked ==
    InGame =>
        /\ Len(evlog) = Len(moves)
        /\ \A i \in 1..Len(moves) :
             /\ moves[i].engine_eval # None <=> TrackedPly(i)
             /\ evlog[i].calls = IF TrackedPly(i) THEN 2 ELSE 0
             /\ TrackedPly(i) => moves[i].engine_eval = Some(evlog[i].after)

C9_Witness ==
    /\ InGame /\ Len(moves) = 2
    /\ \E i, j \in 1..2 :
         /\ TrackedPly(i) /\ evlog[i].calls = 2 /\ moves[i].engine_eval # None
         /\ ~TrackedPly(j) /\ evlog[j].calls = 0 /\ moves[j].engine_eval = None

\* C10: every stored move row carries the id of a stored game row, and that
\* id is one insert_game has returned.
C10_MovesHaveGame ==
    \A i \in 1..Len(moves_tbl) :
        /\ \E r \in games : r.id = moves_tbl[i].game_id
        /\ \E k \in 1..Len(assigned) : assigned[k].id = moves_tbl[i].game_id

C10_Witness ==
    /\ pc = "idle" /\ ui = "exception" /\ batches = 2
    /\ moves_tbl # <<>>
    /\ Cardinality(games) > Cardinality({moves_tbl[i].game_id : i \in 1..Len(moves_tbl)})

\* A step in which the store rejects a write of the store loop.
FailedWrite ==
    /\ pc \in {"insert_game", "insert_moves"}
    /\ pc' = "idle" /\ ui' = "exception"

\* The id insert_game returned for game j of the batch being stored.
BatchGameId(j) ==
    LET stored == IF pc = "insert_game" THEN idx - 1 ELSE idx
    IN assigned[Len(assigned) - stored + j].id

\* C11: when a write fails while game k of a batch is being stored, the
\* store holds after the failure exactly what it held before it, and in
\* particular the game row and every move row of games 1..k-1 of that batch.
C11_PriorGamesSurviveFailedWrite ==
    [][FailedWrite =>
        /\ games' = games /\ moves_tbl' = moves_tbl
        /\ \A j \in 1..(idx - 1) :
             LET gid == BatchGameId(j)
                 entry == results[j]
                 rows == {i \in 1..Len(moves_tbl') : moves_tbl'[i].game_id = gid}
             IN /\ \E r \in games' :
                      /\ r.id = gid
                      /\ r.pgn_text = entry.game.pgn_text
                      /\ r.my_accuracy = entry.game.my_accuracy
                      /\ r.blunders = entry.game.blunders
                /\ Cardinality(rows) = Len(entry.moves)
                /\ \A n \in 1..Len(entry.moves) :
                      \E i \in rows :
                         /\ moves_tbl'[i].ply = entry.moves[n].ply
                         /\ moves_tbl'[i].engine_eval = entry.moves[n].engine_eval
      ]_vars

\* The first batch has stored its first game, row and moves, and a later
\* write of the same batch was rejected.
C11_Witness ==
    /\ pc = "idle" /\ ui = "exception" /\ batches = 1
    /\ Cardinality(games) = 1 /\ Len(moves_tbl) = 1 /\ seq_id = 1
====
